---- MODULE Spec2Model ----
(***************************************************************************)
(* Model of the plugin auditor of the Maiar plugin registry.               *)
(*                                                                         *)
(* The repository holds two copies of class PluginAuditor:                 *)
(*   - src/unnamed/part_000, the accumulate-all auditor (variant "full"),  *)
(*   - src/audit.js, the early-abort auditor (variant "root").             *)
(* Both are modelled; the variable `variant` says which one runs.          *)
(*                                                                         *)
(* A JavaScript string is a sequence of tokens (TLA+ strings), so that     *)
(* template literals are concatenations and String.includes is a real      *)
(* substring test.  A JavaScript value is a record tagged by its typeof    *)
(* in field t.  A response body is its raw text together with what         *)
(* JSON.parse makes of it.                                                 *)
(***************************************************************************)
EXTENDS Integers, Sequences, FiniteSets, TLC

VARIABLES
  variant,      \* which copy of PluginAuditor runs
  githubToken,  \* this.githubToken
  submission,   \* the argument of auditPlugin
  pc,           \* position of auditPlugin: idle, repo, topics, npm, done, rejected
  phase,        \* position of the request in flight: none, sent, body, stalled
  res,          \* the response whose body is being received
  issues,       \* the local issues array
  repoData,     \* the local repoData
  npmData,      \* the local npmData
  requests,     \* every request handed to https.get, in order
  result,       \* the value the promise of auditPlugin settled with
  fetched,      \* how the promise of each makeRequest settled
  outcomes,     \* what the promise of each makeRequest settled with
  ended,        \* the fetches whose "end" handler has run
  repoHead      \* the status line and headers that answered the repository fetch

vars == <<variant, githubToken, submission, pc, phase, res, issues, repoData,
          npmData, requests, result, fetched, outcomes, ended, repoHead>>

----------------------------------------------------------------------------
(* JavaScript values *)

Undefined == [t |-> "undefined"]
Null == [t |-> "null"]
Str(s) == [t |-> "string", s |-> s]
Num(n) == [t |-> "number", n |-> n]
Bool(b) == [t |-> "boolean", b |-> b]

\* ToBoolean
Truthy(v) ==
  CASE v.t = "undefined" -> FALSE
    [] v.t = "null" -> FALSE
    [] v.t = "string" -> Len(v.s) > 0
    [] v.t = "number" -> v.n # 0
    [] v.t = "boolean" -> v.b
    [] OTHER -> TRUE

\* v === n for a number literal n
IsNumber(v, n) == v.t = "number" /\ v.n = n

\* Reading a property of null or undefined throws a TypeError
Nullish(v) == v.t \in {"undefined", "null"}

\* String.prototype.includes
Includes(s, sub) ==
  \E i \in 0..(Len(s) - Len(sub)) : SubSeq(s, i + 1, i + Len(sub)) = sub

\* Array.prototype.includes
ArrayIncludes(a, x) == \E i \in 1..Len(a) : a[i] = x

IsSpace(c) == c = " "

RECURSIVE TrimStart(_)
TrimStart(s) ==
  IF s = <<>> THEN s
  ELSE IF IsSpace(Head(s)) THEN TrimStart(Tail(s)) ELSE s

RECURSIVE TrimEnd(_)
TrimEnd(s) ==
  IF s = <<>> THEN s
  ELSE IF IsSpace(s[Len(s)]) THEN TrimEnd(SubSeq(s, 1, Len(s) - 1)) ELSE s

\* String.prototype.trim
Trim(s) == TrimEnd(TrimStart(s))

\* encodeURIComponent, token by token: reserved characters are escaped
EncodeToken(c) ==
  CASE c = "/" -> "%2F"
    [] c = "@" -> "%40"
    [] OTHER -> c

encodeURIComponent(s) == [i \in 1..Len(s) |-> EncodeToken(s[i])]

\* Date.prototype.toLocaleString of new Date(reset * 1000)
toLocaleString(reset) ==
  IF reset.t = "string" THEN <<"locale date of ", reset.s[1], "000 ms">>
  ELSE <<"Invalid Date">>

StatusText(n) ==
  CASE n = 200 -> "200"
    [] n = 403 -> "403"
    [] n = 404 -> "404"
    [] n = 429 -> "429"
    [] OTHER -> "500"

----------------------------------------------------------------------------
(* Bounds and program constants *)

\* Most spaces put around a description
MaxPad == 1

\* The shortest trimmed description the auditor accepts
MinDescriptionLength == 10

----------------------------------------------------------------------------
(* Inputs: tokens, submissions, responses *)

Variants == {"full", "root"}

Tokens == {Null, Str(<<"ghp_secret">>)}

Owner == <<"acme">>
Repo == <<"plugin-x">>

FieldValues(s) == {Undefined, Str(<<>>), Str(s)}

PackageNames == {<<"@", "maiar-ai", "/", "plugin-x">>, <<"api.github.com">>}

SubmissionObject(r, o, n) ==
  [t |-> "object", repo |-> r, owner |-> o, npm_package_name |-> n]

Submissions ==
  {Null} \cup
  {SubmissionObject(r, o, n) :
     r \in FieldValues(Repo), o \in FieldValues(Owner),
     n \in {Undefined, Str(<<>>)} \cup {Str(p) : p \in PackageNames}}

Spaces(n) == [i \in 1..n |-> " "]
Letters(n) == [i \in 1..n |-> "x"]

PadPairs == {p \in (0..MaxPad) \X (0..MaxPad) : p[1] + p[2] <= MaxPad}

DescriptionStrings ==
  {Spaces(p[1]) \o Letters(n) \o Spaces(p[2]) :
     p \in PadPairs,
     n \in {0, MinDescriptionLength - 1, MinDescriptionLength}}

\* The shapes of the description field of a repository document
Descriptions ==
  {Undefined, Null, Num(1234567890)} \cup {Str(s) : s \in DescriptionStrings}

OwnerObject == [t |-> "object", login |-> Str(Owner)]

RepoDoc(p, d, o) ==
  [t |-> "object", private |-> Bool(p), description |-> d, owner |-> o]

\* What JSON.parse can make of the body that answers GET /repos/{owner}/{repo}
RepoDocs ==
  {Null} \cup
  {RepoDoc(p, d, OwnerObject) : p \in BOOLEAN, d \in Descriptions} \cup
  {RepoDoc(p, Str(Letters(MinDescriptionLength)), Undefined) : p \in BOOLEAN}

Names(a) == [t |-> "array", a |-> a]

TopicsDoc(n) == [t |-> "object", names |-> n]

\* What JSON.parse can make of the body that answers GET .../topics
TopicsDocs ==
  {Null, TopicsDoc(Undefined)} \cup
  {TopicsDoc(Names(a)) :
     a \in {<<>>, <<"ai">>, <<"ai", "maiar">>}}

MatchingUrl == <<"git+https://", "github.com", "/", "acme", "/", "plugin-x", ".git">>
OtherUrl == <<"https://", "github.com", "/", "acme", "/", "other-plugin">>

UrlObject(u) == [t |-> "object", url |-> u]

\* The shapes of the repository field of a package document
RepositoryValues ==
  {Undefined, Num(7), Str(<<>>), Str(MatchingUrl), Str(OtherUrl),
   UrlObject(Undefined), UrlObject(Str(<<>>)), UrlObject(Str(MatchingUrl)),
   UrlObject(Str(OtherUrl)), UrlObject(Num(123))}

DistTags == [t |-> "object", latest |-> Str(<<"1.0.0">>)]
Time == [t |-> "object", modified |-> Str(<<"2025-01-01">>)]

NpmDoc(p, r, d, m) ==
  [t |-> "object", private |-> Bool(p), repository |-> r, distTags |-> d,
   time |-> m]

\* What JSON.parse can make of the body that answers GET registry/{name}
NpmDocs ==
  {Null} \cup
  {NpmDoc(p, r, DistTags, Time) : p \in BOOLEAN, r \in RepositoryValues} \cup
  {NpmDoc(FALSE, Str(MatchingUrl), Undefined, Time),
   NpmDoc(FALSE, Str(MatchingUrl), DistTags, Undefined)}

Targets == {"repo", "topics", "npm"}

DocsOf(target) ==
  CASE target = "repo" -> RepoDocs
    [] target = "topics" -> TopicsDocs
    [] OTHER -> NpmDocs

\* A received body: its text, and the document when the text is JSON
Bodies(target) ==
  {[raw |-> "<html>", json |-> FALSE, doc |-> Null]} \cup
  {[raw |-> "{json}", json |-> TRUE, doc |-> d] : d \in DocsOf(target)}

Statuses == {200, 403, 404, 429, 500}

\* The status line and the rate-limit headers of a response
Heads ==
  {[statusCode |-> s, remaining |-> r[1], reset |-> r[2]] :
     s \in Statuses,
     r \in {<<Str(<<"0">>), Str(<<"1700000000">>)>>,
            <<Str(<<"0">>), Undefined>>,
            <<Str(<<"59">>), Str(<<"1700000000">>)>>,
            <<Undefined, Undefined>>}}

NoHead == [statusCode |-> 0, remaining |-> Undefined, reset |-> Undefined]

TransportFaults == {<<"ECONNRESET">>}

----------------------------------------------------------------------------
(* makeRequest *)

ApiHost == <<"api.github.com">>

RepoUrl(sub) ==
  <<"https://", "api.github.com", "/repos/">> \o sub.owner.s \o <<"/">> \o sub.repo.s

TopicsUrl(sub) == RepoUrl(sub) \o <<"/topics">>

NpmUrl(sub) ==
  <<"https://", "registry.npmjs.org", "/">> \o
  encodeURIComponent(sub.npm_package_name.s)

UrlOf(target, sub) ==
  CASE target = "repo" -> RepoUrl(sub)
    [] target = "topics" -> TopicsUrl(sub)
    [] OTHER -> NpmUrl(sub)

\* The host https.get connects to: what follows the scheme
HostOf(url) == url[2]

\* options.headers.Accept of each call of makeRequest
OptionsAccept(target) ==
  IF target = "topics" THEN Str(<<"application/vnd.github.mercy-preview+json">>)
  ELSE Undefined

DefaultAccept(v) ==
  IF v = "full" THEN Str(<<"application/vnd.github.v3+json">>) ELSE Undefined

\* if (this.githubToken && url.includes("api.github.com"))
AttachesToken(token, url) == Truthy(token) /\ Includes(url, ApiHost)

makeRequest_headers(v, token, url, accept) ==
  [UserAgent |-> Str(<<"Maiar-Plugin-Auditor">>),
   Accept |-> IF accept.t = "undefined" THEN DefaultAccept(v) ELSE accept,
   Authorization |->
     IF AttachesToken(token, url) THEN Str(<<"token ">> \o token.s)
     ELSE Undefined]

\* What https.get is called with
Request(v, token, target, sub) ==
  LET url == UrlOf(target, sub)
  IN [target |-> target, url |-> url, host |-> HostOf(url),
      headers |-> makeRequest_headers(v, token, url, OptionsAccept(target))]

Error(status, message, response) ==
  [status |-> status, message |-> message, response |-> response]

ResponseOf(n) == [t |-> "object", status |-> Num(n)]

\* A TypeError thrown by the engine: it has a message and nothing else
TypeError(message) == Error(Undefined, message, Undefined)

\* Mutant: the rate-limit headers are looked at on error statuses only
RateLimited_ErrorStatusOnly(v, url, head) ==
  /\ v = "full"
  /\ Includes(url, ApiHost)
  /\ head.statusCode >= 400
  /\ head.remaining.t = "string"
  /\ head.remaining.s = <<"0">>

\* if (url.includes("api.github.com")) ... if (rateLimit.remaining === "0")
RateLimited(v, url, head) ==
  /\ v = "full"
  /\ Includes(url, ApiHost)
  /\ head.remaining.t = "string"
  /\ head.remaining.s = <<"0">>

RateLimitError(head) ==
  Error(Num(429),
        <<"GitHub API rate limit exceeded. Resets at ">> \o toLocaleString(head.reset),
        ResponseOf(429))

HttpError(v, statusCode, body) ==
  IF v = "full"
  THEN Error(Num(statusCode), <<"HTTP ", StatusText(statusCode), ": ", body.raw>>,
             ResponseOf(statusCode))
  ELSE Error(Num(statusCode), <<body.raw>>, ResponseOf(statusCode))

ParseError(v, body) ==
  IF v = "full"
  THEN Error(Num(500), <<"Failed to parse JSON response: ", "Unexpected token">>,
             Undefined)
  ELSE Error(Undefined, <<"Unexpected token">>, Undefined)

NetworkError(v, fault) ==
  IF v = "full"
  THEN Error(Num(500), <<"Network error: ">> \o fault, Undefined)
  ELSE Error(Undefined, fault, Undefined)

Resolve(data, statusCode) ==
  [ok |-> TRUE, data |-> data, status |-> statusCode, error |-> TypeError(<<>>)]

Reject(error) == [ok |-> FALSE, data |-> Null, status |-> 0, error |-> error]

\* res.on("end", ...)
makeRequest_onEnd(v, statusCode, body) ==
  IF statusCode >= 400 THEN Reject(HttpError(v, statusCode, body))
  ELSE IF body.json THEN Resolve(body.doc, statusCode)
  ELSE Reject(ParseError(v, body))

----------------------------------------------------------------------------
(* auditPlugin: the issue texts *)

MissingFieldsIssue == <<"Missing required fields in submission">>
RepoNotFoundIssue == <<"GitHub repository not found">>
RepoNotPublicIssue == <<"GitHub repository is not public">>
ForbiddenPrefix == <<"GitHub API access forbidden: ">>
RepoErrorPrefix == <<"Error accessing GitHub repository: ">>
MustBePublicIssue == <<"Repository must be public">>
DescriptionIssue ==
  <<"Repository must have a clear, descriptive description (minimum 10 characters)">>
TopicIssue == <<"Repository must have the \"maiar\" topic tagged">>
TopicsErrorPrefix == <<"Error checking repository topics: ">>
NpmNotFoundIssue == <<"npm package not found">>
NpmErrorPrefix == <<"Error accessing npm package: ">>
NpmMustBePublicIssue == <<"npm package must be public">>
UrlMismatchIssue == <<"npm package repository URL must match GitHub repository">>
UnexpectedPrefix == <<"Unexpected error during audit: ">>

----------------------------------------------------------------------------
(* auditPlugin: the checks *)

\* Mutant: only an absent field counts as missing, an empty one does not
MissingRequiredFields_AbsentOnly(sub) ==
  \/ sub.repo.t = "undefined"
  \/ sub.owner.t = "undefined"
  \/ sub.npm_package_name.t = "undefined"

\* !submission.repo || !submission.owner || !submission.npm_package_name
MissingRequiredFields(sub) ==
  \/ ~Truthy(sub.repo)
  \/ ~Truthy(sub.owner)
  \/ ~Truthy(sub.npm_package_name)

\* error.response?.status
ResponseStatus(error) ==
  IF Nullish(error.response) THEN Undefined ELSE error.response.status

\* The catch block of the repository fetch, accumulate-all auditor
RepoFailureIssue(error) ==
  IF IsNumber(error.status, 429) THEN error.message
  ELSE IF IsNumber(ResponseStatus(error), 404) THEN RepoNotFoundIssue
  ELSE IF IsNumber(ResponseStatus(error), 403) THEN ForbiddenPrefix \o error.message
  ELSE RepoErrorPrefix \o error.message

\* The catch block of the repository fetch, early-abort auditor
RepoFailureIssue_root(error) ==
  IF IsNumber(ResponseStatus(error), 404) THEN RepoNotFoundIssue
  ELSE IF IsNumber(ResponseStatus(error), 403) THEN RepoNotPublicIssue
  ELSE RepoErrorPrefix \o error.message

\* The catch block of the package fetch
NpmFailureIssue(error) ==
  IF IsNumber(ResponseStatus(error), 404) THEN NpmNotFoundIssue
  ELSE NpmErrorPrefix \o error.message

Ok(iss) == [threw |-> FALSE, error |-> TypeError(<<>>), issues |-> iss]
Threw(iss, message) == [threw |-> TRUE, error |-> TypeError(message), issues |-> iss]

\* The visibility and description checks on repoData.data
RepoChecks(data, iss) ==
  IF Nullish(data)
  THEN Threw(iss, <<"Cannot read properties of null (reading 'private')">>)
  ELSE LET i1 == IF Truthy(data.private) THEN Append(iss, MustBePublicIssue) ELSE iss
       IN IF ~Truthy(data.description) THEN Ok(Append(i1, DescriptionIssue))
          ELSE IF data.description.t # "string"
          THEN Threw(i1, <<"repoData.data.description.trim is not a function">>)
          ELSE IF Len(Trim(data.description.s)) < MinDescriptionLength
          THEN Ok(Append(i1, DescriptionIssue))
          ELSE Ok(i1)

\* if (!topicsResponse.data.names.includes("maiar"))
TopicsCheck(data, iss) ==
  IF Nullish(data)
  THEN Threw(iss, <<"Cannot read properties of null (reading 'names')">>)
  ELSE IF Nullish(data.names)
  THEN Threw(iss, <<"Cannot read properties of undefined (reading 'includes')">>)
  ELSE IF ~ArrayIncludes(data.names.a, "maiar") THEN Ok(Append(iss, TopicIssue))
  ELSE Ok(iss)

\* typeof
Typeof(v) == IF v.t \in {"null", "array"} THEN "object" ELSE v.t

\* Mutant: the url member of an object is not looked at
normalizeRepositoryUrl_StringOnly(repository) ==
  IF ~Truthy(repository) THEN Str(<<>>)
  ELSE IF Typeof(repository) = "string" THEN repository
  ELSE Str(<<>>)

normalizeRepositoryUrl(repository) ==
  IF ~Truthy(repository) THEN Str(<<>>)
  ELSE IF Typeof(repository) = "string" THEN repository
  ELSE IF Typeof(repository) = "object" /\ Truthy(repository.url) THEN repository.url
  ELSE Str(<<>>)

\* `${submission.owner}/${submission.repo}`
OwnerSlashRepo(sub) == sub.owner.s \o <<"/">> \o sub.repo.s

\* The visibility and cross-reference checks on npmData; crossCheck is the
\* guard if (repoData) of the accumulate-all auditor
NpmChecks(data, crossCheck, sub, iss) ==
  IF Nullish(data)
  THEN Threw(iss, <<"Cannot read properties of null (reading 'private')">>)
  ELSE LET i1 == IF Truthy(data.private) THEN Append(iss, NpmMustBePublicIssue) ELSE iss
           n == normalizeRepositoryUrl(data.repository)
       IN IF ~crossCheck THEN Ok(i1)
          ELSE IF n.t # "string"
          THEN Threw(i1, <<"normalizedRepoUrl.includes is not a function">>)
          ELSE IF ~Includes(n.s, OwnerSlashRepo(sub)) THEN Ok(Append(i1, UrlMismatchIssue))
          ELSE Ok(i1)

----------------------------------------------------------------------------
(* auditPlugin: the returned object *)

Assembled(metadata) ==
  [threw |-> FALSE, error |-> TypeError(<<>>), metadata |-> metadata]
AssemblyThrew(message) ==
  [threw |-> TRUE, error |-> TypeError(message), metadata |-> Undefined]

Metadata(github, npm) == [t |-> "object", github |-> github, npm |-> npm]

GithubMetadata(data) ==
  [t |-> "object", owner |-> data.owner.login, description |-> data.description,
   isPublic |-> Bool(~Truthy(data.private))]

NpmMetadata(sub, data) ==
  [t |-> "object", name |-> sub.npm_package_name,
   version |-> IF Nullish(data.distTags) THEN Undefined ELSE data.distTags.latest]

\* metadata: { github: repoData?.data ? {...} : null, npm: npmData ? {...} : null }
AssembleMetadata(rd, nd, sub) ==
  IF Truthy(rd) /\ Truthy(rd.data) /\ Nullish(rd.data.owner)
  THEN AssemblyThrew(<<"Cannot read properties of undefined (reading 'login')">>)
  ELSE Assembled(Metadata(
         IF Truthy(rd) /\ Truthy(rd.data) THEN GithubMetadata(rd.data) ELSE Null,
         IF Truthy(nd) THEN NpmMetadata(sub, nd) ELSE Null))

\* metadata: { github: repoData ? {...} : null, npm: npmData ? {...} : null }
AssembleMetadata_root(rd, nd, sub) ==
  IF Truthy(rd) /\ Nullish(rd.data)
  THEN AssemblyThrew(<<"Cannot read properties of null (reading 'name')">>)
  ELSE IF Truthy(rd) /\ Nullish(rd.data.owner)
  THEN AssemblyThrew(<<"Cannot read properties of undefined (reading 'login')">>)
  ELSE IF Truthy(nd) /\ Nullish(nd.distTags)
  THEN AssemblyThrew(<<"Cannot read properties of undefined (reading 'latest')">>)
  ELSE IF Truthy(nd) /\ Nullish(nd.time)
  THEN AssemblyThrew(<<"Cannot read properties of undefined (reading 'modified')">>)
  ELSE Assembled(Metadata(
         IF Truthy(rd) THEN GithubMetadata(rd.data) ELSE Null,
         IF Truthy(nd) THEN NpmMetadata(sub, nd) ELSE Null))

Pending == [t |-> "pending"]

Rejected(error) == [t |-> "rejected", error |-> error]

\* Mutant: the verdict tolerates one issue
Passed_OffByOne(iss) == Len(iss) <= 1

\* passed: issues.length === 0
Passed(iss) == Len(iss) = 0

\* return { passed: issues.length === 0, issues, metadata: {...} }
FinalResult(iss, metadata) ==
  [t |-> "result", passed |-> Passed(iss), issues |-> iss, metadata |-> metadata]

\* return { passed: false, issues }
EarlyResult(iss) ==
  [t |-> "result", passed |-> FALSE, issues |-> iss, metadata |-> Undefined]

----------------------------------------------------------------------------
(* auditPlugin: the control flow between two awaits *)

\* Where auditPlugin goes next: a fetch to await, or a return
\* ("return": the return statement after the outer try;
\*  "returnEarly": a return statement inside it)
Goto(to, iss, rd, nd) == [to |-> to, issues |-> iss, repoData |-> rd, npmData |-> nd]

ResponseObject(outcome) ==
  [t |-> "object", data |-> outcome.data, status |-> outcome.status]

Unexpected(iss, error) == Append(iss, UnexpectedPrefix \o error.message)

\* From the call to the first await
Start(sub) ==
  IF Nullish(sub)
  THEN Goto("return",
            Unexpected(<<>>, TypeError(<<"Cannot read properties of null (reading 'repo')">>)),
            Null, Null)
  ELSE IF MissingRequiredFields(sub)
  THEN Goto("returnEarly", <<MissingFieldsIssue>>, Null, Null)
  ELSE Goto("repo", <<>>, Null, Null)

\* Mutant: the topics are fetched after a failed repository fetch too
AfterRepo_TopicsRegardless(outcome, iss) ==
  IF outcome.ok
  THEN LET c == RepoChecks(outcome.data, iss)
       IN IF c.threw
          THEN Goto("return", Unexpected(c.issues, c.error), ResponseObject(outcome), Null)
          ELSE Goto("topics", c.issues, ResponseObject(outcome), Null)
  ELSE Goto("topics", Append(iss, RepoFailureIssue(outcome.error)), Null, Null)

\* After the repository fetch settled, accumulate-all auditor
AfterRepo(outcome, iss) ==
  IF outcome.ok
  THEN LET c == RepoChecks(outcome.data, iss)
       IN IF c.threw
          THEN Goto("return", Unexpected(c.issues, c.error), ResponseObject(outcome), Null)
          ELSE Goto("topics", c.issues, ResponseObject(outcome), Null)
  ELSE Goto("npm", Append(iss, RepoFailureIssue(outcome.error)), Null, Null)

\* After the repository fetch settled, early-abort auditor
AfterRepo_root(outcome, iss) ==
  IF outcome.ok
  THEN LET c == RepoChecks(outcome.data, iss)
       IN IF c.threw
          THEN Goto("return", Unexpected(c.issues, c.error), ResponseObject(outcome), Null)
          ELSE Goto("topics", c.issues, ResponseObject(outcome), Null)
  ELSE Goto("returnEarly", Append(iss, RepoFailureIssue_root(outcome.error)), Null, Null)

\* The issues after the topics fetch settled; failed says the catch block ran
TopicsIssues(outcome, iss) ==
  IF outcome.ok
  THEN LET c == TopicsCheck(outcome.data, iss)
       IN IF c.threw
          THEN [failed |-> TRUE, issues |-> Append(c.issues, TopicsErrorPrefix \o c.error.message)]
          ELSE [failed |-> FALSE, issues |-> c.issues]
  ELSE [failed |-> TRUE, issues |-> Append(iss, TopicsErrorPrefix \o outcome.error.message)]

\* After the topics fetch settled, accumulate-all auditor
AfterTopics(outcome, iss, rd) ==
  Goto("npm", TopicsIssues(outcome, iss).issues, rd, Null)

\* After the topics fetch settled, early-abort auditor
AfterTopics_root(outcome, iss, rd) ==
  LET r == TopicsIssues(outcome, iss)
  IN Goto(IF r.failed THEN "returnEarly" ELSE "npm", r.issues, rd, Null)

\* Mutant: the cross-reference runs without the guard if (repoData)
AfterNpm_AlwaysCrossChecks(sub, outcome, iss, rd) ==
  IF outcome.ok
  THEN LET c == NpmChecks(outcome.data, TRUE, sub, iss)
       IN IF c.threw
          THEN Goto("return", Append(c.issues, NpmFailureIssue(c.error)), rd, outcome.data)
          ELSE Goto("return", c.issues, rd, outcome.data)
  ELSE Goto("return", Append(iss, NpmFailureIssue(outcome.error)), rd, Null)

\* After the package fetch settled, accumulate-all auditor
AfterNpm(sub, outcome, iss, rd) ==
  IF outcome.ok
  THEN LET c == NpmChecks(outcome.data, Truthy(rd), sub, iss)
       IN IF c.threw
          THEN Goto("return", Append(c.issues, NpmFailureIssue(c.error)), rd, outcome.data)
          ELSE Goto("return", c.issues, rd, outcome.data)
  ELSE Goto("return", Append(iss, NpmFailureIssue(outcome.error)), rd, Null)

\* After the package fetch settled, early-abort auditor
AfterNpm_root(sub, outcome, iss, rd) ==
  IF outcome.ok
  THEN LET c == NpmChecks(outcome.data, TRUE, sub, iss)
       IN IF c.threw
          THEN Goto("return", Unexpected(c.issues, c.error), rd, outcome.data)
          ELSE Goto("return", c.issues, rd, outcome.data)
  ELSE Goto("returnEarly", Append(iss, NpmFailureIssue(outcome.error)), rd, Null)

After(v, at, sub, outcome, iss, rd) ==
  CASE at = "repo" ->
         IF v = "full" THEN AfterRepo(outcome, iss) ELSE AfterRepo_root(outcome, iss)
    [] at = "topics" ->
         IF v = "full" THEN AfterTopics(outcome, iss, rd)
         ELSE AfterTopics_root(outcome, iss, rd)
    [] OTHER ->
         IF v = "full" THEN AfterNpm(sub, outcome, iss, rd)
         ELSE AfterNpm_root(sub, outcome, iss, rd)

Assemble(v, rd, nd, sub) ==
  IF v = "full" THEN AssembleMetadata(rd, nd, sub) ELSE AssembleMetadata_root(rd, nd, sub)

\* What the promise of auditPlugin settles with when the flow reaches a return
Settlement(v, step, sub) ==
  IF step.to = "returnEarly" THEN EarlyResult(step.issues)
  ELSE LET m == Assemble(v, step.repoData, step.npmData, sub)
       IN IF m.threw THEN Rejected(m.error) ELSE FinalResult(step.issues, m.metadata)

----------------------------------------------------------------------------
(* State machine *)

NoRes == [statusCode |-> 0]

NotFetched == [target \in Targets |-> "none"]

NoOutcomes == [target \in Targets |-> Reject(TypeError(<<>>))]

Init ==
  /\ variant \in Variants
  /\ githubToken \in Tokens
  /\ submission = Undefined
  /\ pc = "idle"
  /\ phase = "none"
  /\ res = NoRes
  /\ issues = <<>>
  /\ repoData = Null
  /\ npmData = Null
  /\ requests = <<>>
  /\ result = Pending
  /\ fetched = NotFetched
  /\ outcomes = NoOutcomes
  /\ ended = {}
  /\ repoHead = NoHead

\* Take the step: issue the next request and suspend, or settle the promise
Advance(sub, step) ==
  /\ issues' = step.issues
  /\ repoData' = step.repoData
  /\ npmData' = step.npmData
  /\ res' = NoRes
  /\ IF step.to \in Targets
     THEN /\ pc' = step.to
          /\ phase' = "sent"
          /\ requests' = Append(requests, Request(variant, githubToken, step.to, sub))
          /\ result' = result
     ELSE LET r == Settlement(variant, step, sub)
          IN /\ pc' = IF r.t = "rejected" THEN "rejected" ELSE "done"
             /\ phase' = "none"
             /\ requests' = requests
             /\ result' = r

\* The promise of makeRequest settles and auditPlugin resumes
Settle(outcome) ==
  /\ fetched' = [fetched EXCEPT ![pc] = IF outcome.ok THEN "ok" ELSE "failed"]
  /\ outcomes' = [outcomes EXCEPT ![pc] = outcome]
  /\ Advance(submission, After(variant, pc, submission, outcome, issues, repoData))

\* auditor.auditPlugin(submission)
AuditPlugin(sub) ==
  /\ pc = "idle"
  /\ submission' = sub
  /\ Advance(sub, Start(sub))
  /\ UNCHANGED <<variant, githubToken, fetched, outcomes, ended, repoHead>>

\* The callback of https.get: the status line and the headers have arrived
OnResponse(head) ==
  /\ pc \in Targets
  /\ phase = "sent"
  /\ repoHead' = IF pc = "repo" THEN head ELSE repoHead
  /\ IF RateLimited(variant, requests[Len(requests)].url, head)
     THEN Settle(Reject(RateLimitError(head)))
     ELSE /\ phase' = "body"
          /\ res' = [statusCode |-> head.statusCode]
          /\ UNCHANGED <<pc, issues, repoData, npmData, requests, result, fetched,
                         outcomes>>
  /\ UNCHANGED <<variant, githubToken, submission, ended>>

\* res.on("end"): the whole body has arrived
OnEnd(body) ==
  /\ pc \in Targets
  /\ phase = "body"
  /\ ended' = ended \cup {pc}
  /\ Settle(makeRequest_onEnd(variant, res.statusCode, body))
  /\ UNCHANGED <<variant, githubToken, submission, repoHead>>

\* req.on("error"): the transport failed before a response arrived
OnError(fault) ==
  /\ pc \in Targets
  /\ phase = "sent"
  /\ Settle(Reject(NetworkError(variant, fault)))
  /\ UNCHANGED <<variant, githubToken, submission, ended, repoHead>>

\* The server stops answering, or the response is cut off before its end:
\* makeRequest sets no timeout and listens to no "aborted", "close" or
\* response "error" event, so none of its handlers runs any more
Stall ==
  /\ pc \in Targets
  /\ phase \in {"sent", "body"}
  /\ phase' = "stalled"
  /\ UNCHANGED <<variant, githubToken, submission, pc, res, issues, repoData,
                 npmData, requests, result, fetched, outcomes, ended, repoHead>>

Next ==
  \/ \E sub \in Submissions : AuditPlugin(sub)
  \/ \E head \in Heads : OnResponse(head)
  \/ \E body \in Bodies(pc) : OnEnd(body)
  \/ \E fault \in TransportFaults : OnError(fault)
  \/ Stall

Spec == Init /\ [][Next]_vars

\* The event loop runs every handler whose event has arrived
FairSpec == Spec /\ WF_vars(Next)

----------------------------------------------------------------------------
(* Properties *)

Finished == pc \in {"done", "rejected"}

Returned == result.t = "result"

\* A submission with all three required fields
CompleteSubmission ==
  /\ submission.t = "object"
  /\ \A v \in {submission.repo, submission.owner, submission.npm_package_name} :
       v.t = "string" /\ v.s # <<>>

\* A submission object in which a required field is missing or empty
IncompleteSubmission ==
  /\ submission.t = "object"
  /\ \E v \in {submission.repo, submission.owner, submission.npm_package_name} :
       v.t = "undefined" \/ v = Str(<<>>)

\* result.metadata?.github and result.metadata?.npm
MetadataGithub(r) == IF Nullish(r.metadata) THEN Undefined ELSE r.metadata.github
MetadataNpm(r) == IF Nullish(r.metadata) THEN Undefined ELSE r.metadata.npm

IsPrefix(p, q) == Len(p) <= Len(q) /\ SubSeq(q, 1, Len(p)) = p

Occurrences(iss, issue) == Cardinality({i \in 1..Len(iss) : iss[i] = issue})

RequestsTo(target) == {i \in 1..Len(requests) : requests[i].target = target}

(* C1: auditPlugin never rejects: whatever the submission and whatever the
   fetches deliver, its promise resolves to a result object. *)
C1_NeverRejects == result.t # "rejected"

(* C2: in every result auditPlugin returns, on the normal return and on every
   early return, passed is true if and only if the issues list is empty. *)
C2_PassedIffNoIssues ==
  Returned => (result.passed <=> result.issues = <<>>)

\* A passing result, and the issues it carries are the ones collected
C2_Witness ==
  /\ pc = "done"
  /\ Returned
  /\ result.passed
  /\ result.issues = issues
  /\ \A target \in Targets : fetched[target] = "ok"

(* C3: every returned result carries a metadata object in which github is
   non-null exactly when the repository fetch succeeded and npm is non-null
   exactly when the package fetch succeeded. *)
C3_MetadataAlwaysCarried ==
  Returned =>
    /\ result.metadata.t = "object"
    /\ (result.metadata.github.t # "null") <=> (fetched["repo"] = "ok")
    /\ (result.metadata.npm.t # "null") <=> (fetched["npm"] = "ok")

(* C4: for every submission with all three required fields the package
   metadata request is issued exactly once, whether the repository and topics
   fetches succeeded or failed. *)
C4_PackageRequestedOnce ==
  (Finished /\ CompleteSubmission) => Cardinality(RequestsTo("npm")) = 1

\* The issue the claim names for a failed fetch
ClaimedFailureIssue(target, error) ==
  CASE target = "repo" ->
         IF IsNumber(error.status, 429) THEN error.message
         ELSE IF IsNumber(ResponseStatus(error), 404)
         THEN <<"GitHub repository not found">>
         ELSE IF IsNumber(ResponseStatus(error), 403)
         THEN <<"GitHub API access forbidden: ">> \o error.message
         ELSE <<"Error accessing GitHub repository: ">> \o error.message
    [] target = "topics" -> <<"Error checking repository topics: ">> \o error.message
    [] OTHER ->
         IF IsNumber(ResponseStatus(error), 404) THEN <<"npm package not found">>
         ELSE <<"Error accessing npm package: ">> \o error.message

(* C5: each failed fetch appends exactly one issue, the one its
   classification selects: rate limit, not found, forbidden or other for the
   repository fetch, the topics error for the topics fetch, not found or other
   for the package fetch. *)
C5_OneClassifiedIssuePerFailure ==
  [][\A target \in Targets :
       (fetched[target] = "none" /\ fetched'[target] = "failed") =>
         issues' = Append(issues, ClaimedFailureIssue(target, outcomes'[target].error))
    ]_vars

(* C6: a submission in which repo, owner or npm_package_name is missing or
   empty causes no network request and returns passed = false, the single
   issue "Missing required fields in submission" and no metadata. *)
C6_MissingFieldsNoRequest ==
  (pc # "idle" /\ IncompleteSubmission) =>
    /\ requests = <<>>
    /\ pc = "done"
    /\ Returned
    /\ result.passed = FALSE
    /\ result.issues = <<(<<"Missing required fields in submission">>)>>
    /\ Nullish(MetadataGithub(result))
    /\ Nullish(MetadataNpm(result))

\* Only the package name is empty
C6_Witness ==
  /\ pc = "done"
  /\ submission.t = "object"
  /\ submission.repo = Str(Repo)
  /\ submission.owner = Str(Owner)
  /\ submission.npm_package_name = Str(<<>>)

\* The issues a failed repository fetch can leave, the rate-limit one excepted
OtherRepoFetchIssue(issue) ==
  \/ issue = RepoNotFoundIssue
  \/ issue = RepoNotPublicIssue
  \/ IsPrefix(ForbiddenPrefix, issue)
  \/ IsPrefix(RepoErrorPrefix, issue)

RepoAnsweredWithNoneRemaining ==
  /\ variant = "full"
  /\ repoHead.remaining.t = "string"
  /\ repoHead.remaining.s = <<"0">>

(* C7: in the auditor that reads the rate-limit headers, a response to the
   repository fetch with x-ratelimit-remaining "0", whatever its status code,
   fails the request as rate limited before its body is read, and the audit
   records for it the single issue that carries the formatted reset time, never
   a not-found, forbidden, malformed-response or network-error issue. *)
C7_RateLimitShortCircuits ==
  RepoAnsweredWithNoneRemaining =>
    /\ fetched["repo"] = "failed"
    /\ IsNumber(outcomes["repo"].error.status, 429)
    /\ "repo" \notin ended
    /\ RequestsTo("repo") = {1}
    /\ RequestsTo("topics") = {}
    /\ Len(issues) >= 1
    /\ issues[1] = <<"GitHub API rate limit exceeded. Resets at ">> \o
                   toLocaleString(repoHead.reset)
    /\ \A i \in 1..Len(issues) : ~OtherRepoFetchIssue(issues[i])

\* A 200 response with none remaining, and the audit has finished
C7_Witness ==
  /\ RepoAnsweredWithNoneRemaining
  /\ repoHead.statusCode = 200
  /\ repoHead.reset.t = "string"
  /\ pc = "done"

(* C8: a request carries the Authorization header with the configured token
   if and only if a token is configured and the host it is sent to is
   api.github.com; the request to the package registry never carries it. *)
C8_TokenOnlyToApiHost ==
  \A i \in 1..Len(requests) :
    (requests[i].headers.Authorization.t # "undefined") <=>
      (Truthy(githubToken) /\ requests[i].host = "api.github.com")

\* The conditions the claim lists for a passing audit
AllChecksPass ==
  /\ \A target \in Targets : fetched[target] = "ok"
  /\ LET repoDoc == outcomes["repo"].data
         topicsDoc == outcomes["topics"].data
         npmDoc == outcomes["npm"].data
     IN /\ repoDoc.t = "object"
        /\ ~Truthy(repoDoc.private)
        /\ repoDoc.description.t = "string"
        /\ Len(Trim(repoDoc.description.s)) >= 10
        /\ topicsDoc.t = "object"
        /\ topicsDoc.names.t = "array"
        /\ \E i \in 1..Len(topicsDoc.names.a) : topicsDoc.names.a[i] = "maiar"
        /\ npmDoc.t = "object"
        /\ ~Truthy(npmDoc.private)
        /\ LET n == normalizeRepositoryUrl(npmDoc.repository)
           IN n.t = "string" /\
              Includes(n.s, submission.owner.s \o <<"/">> \o submission.repo.s)

(* C9: auditPlugin returns passed = true with no issues if and only if all
   three fetches succeeded and every check on the repository, its topics and
   the package passed. *)
C9_PassesIffAllChecksPass ==
  (Finished /\ CompleteSubmission) =>
    ((Returned /\ result.passed /\ result.issues = <<>>) <=> AllChecksPass)

\* The same equivalence on the audits that return a result
C9_OnReturnedResults ==
  (pc = "done" /\ CompleteSubmission) =>
    ((result.passed /\ result.issues = <<>>) <=> AllChecksPass)

\* What the claim says normalizeRepositoryUrl returns
ClaimedNormalized(r) ==
  IF r.t = "string" THEN r
  ELSE IF r.t = "object" /\ r.url.t # "undefined" THEN r.url
  ELSE Str(<<>>)

(* C10: normalizeRepositoryUrl returns a string argument as it is, the url
   member of an object that has one, and the empty string otherwise; and when
   the repository and package fetches both succeeded and the normalized
   reference is a string, the URL-mismatch issue is appended exactly when that
   string does not contain "<owner>/<repo>". *)
C10_NormalizeAndCrossReference ==
  (fetched["npm"] = "ok" /\ outcomes["npm"].data.t = "object") =>
    LET r == outcomes["npm"].data.repository
        n == normalizeRepositoryUrl(r)
    IN /\ n = ClaimedNormalized(r)
       /\ (Finished /\ fetched["repo"] = "ok" /\ n.t = "string") =>
            /\ Occurrences(issues, UrlMismatchIssue) =
                 IF Includes(n.s, submission.owner.s \o <<"/">> \o submission.repo.s)
                 THEN 0 ELSE 1

\* {url: "git+https://github.com/acme/plugin-x.git"} for acme/plugin-x passes
C10_Witness ==
  /\ pc = "done"
  /\ fetched["repo"] = "ok"
  /\ fetched["npm"] = "ok"
  /\ outcomes["npm"].data = NpmDoc(FALSE, UrlObject(Str(MatchingUrl)), DistTags, Time)
  /\ Occurrences(issues, UrlMismatchIssue) = 0

(* C11: every invocation of auditPlugin eventually completes with a verdict,
   whatever each request does, a response that stalls or is cut off before
   its end included. *)
C11_EventuallyCompletes == <>Finished

\* The place of a request in the order repository, topics, package
OrderOf(target) ==
  CASE target = "repo" -> 1
    [] target = "topics" -> 2
    [] OTHER -> 3

(* C12: within one audit the requests are issued in the order repository,
   topics, package, each at most once (no retry), so at most three; the topics
   request only after the repository fetch succeeded; and every request has
   succeeded or failed before the next is issued, so at most one is
   outstanding. *)
C12_SequentialNoRetry ==
  /\ Len(requests) <= 3
  /\ \A i, j \in 1..Len(requests) :
       i < j => OrderOf(requests[i].target) < OrderOf(requests[j].target)
  /\ RequestsTo("topics") # {} => fetched["repo"] = "ok"
  /\ \A i \in 1..Len(requests) :
       i < Len(requests) => fetched[requests[i].target] # "none"
  /\ Cardinality({i \in 1..Len(requests) : fetched[requests[i].target] = "none"}) <= 1

\* All three requests were issued although the topics fetch failed
C12_Witness ==
  /\ Finished
  /\ Len(requests) = 3
  /\ fetched["topics"] = "failed"
  /\ fetched["npm"] # "none"

\* The issues derived from the repository document and its topics
RepoDerivedIssue(issue) ==
  \/ issue = <<"Repository must be public">>
  \/ issue = DescriptionIssue
  \/ issue = TopicIssue
  \/ IsPrefix(<<"Error checking repository topics: ">>, issue)

\* The issues a failed repository fetch leaves
RepoFetchFailureIssue(issue) ==
  \/ OtherRepoFetchIssue(issue)
  \/ IsPrefix(<<"GitHub API rate limit exceeded. Resets at ">>, issue)
  \/ IsPrefix(<<"HTTP ">>, issue)

HasIssue(iss, P(_)) == \E i \in 1..Len(iss) : P(iss[i])

IsTopicsError(issue) == IsPrefix(<<"Error checking repository topics: ">>, issue)

(* C13: the repository-derived issues appear only if the repository fetch
   succeeded, never together with a repository-fetch failure issue; the topic
   issue and the topics-error issue never both appear; and the URL-mismatch
   issue appears only if the repository and the package fetch both
   succeeded. *)
C13_IssuesOnlyAfterTheirFetch ==
  /\ Returned => result.issues = issues
  /\ HasIssue(issues, RepoDerivedIssue) =>
       fetched["repo"] = "ok" /\ ~HasIssue(issues, RepoFetchFailureIssue)
  /\ ~(Occurrences(issues, TopicIssue) > 0 /\ HasIssue(issues, IsTopicsError))
  /\ Occurrences(issues, UrlMismatchIssue) > 0 =>
       fetched["repo"] = "ok" /\ fetched["npm"] = "ok"

\* A result with repository-derived issues and the URL-mismatch issue
C13_Witness ==
  /\ Returned
  /\ Occurrences(result.issues, <<"Repository must be public">>) = 1
  /\ Occurrences(result.issues, TopicIssue) = 1
  /\ Occurrences(result.issues, UrlMismatchIssue) = 1

\* The issues the catch block of the package fetch leaves
PackageFetchFailureIssue(issue) ==
  \/ issue = <<"npm package not found">>
  \/ IsPrefix(<<"Error accessing npm package: ">>, issue)

(* C14: in every result of the accumulate-all auditor a package fetch-failure
   issue is present only if the package fetch itself failed, and never
   together with a non-null metadata.npm, whatever the shape of the package
   document. *)
C14_PackageFailureOnlyIfFetchFailed ==
  (variant = "full" /\ Returned /\ HasIssue(result.issues, PackageFetchFailureIssue)) =>
    /\ fetched["npm"] = "failed"
    /\ Nullish(MetadataNpm(result))

====
